---- MODULE Spec2Model ----
(***************************************************************************)
(* State-machine model of src/app.py: the /scrape route, the per-page      *)
(* orchestration, the retrying fetcher, the image downloader, the report   *)
(* writer and the archiver.                                                 *)
(*                                                                         *)
(* Strings are sequences of tokens.  The tokens "/", "." and "?" are the   *)
(* delimiters the code splits on; every other token is an opaque run of    *)
(* characters without a delimiter.  A filesystem path is a sequence of     *)
(* segments, each segment a token string.                                  *)
(***************************************************************************)
EXTENDS Integers, Sequences, TLC

(* ------------------------------ bounds -------------------------------- *)
MaxUrls == 2
MaxImgs == 2
MaxDrift == 1
MaxWorkers == 2

(* ----------------------- configuration constants ---------------------- *)
RETRY_COUNT == 3
RETRY_DELAY == 2
URL_DELAY == 1
OUTPUT_DIRECTORY == << <<"tmp">>, <<"output">> >>
WHITELIST == { <<"jpg">>, <<"jpeg">>, <<"png">>, <<"gif">>, <<"bmp">>, <<"webp">> }
FALLBACK == <<"unknown">>
HEADER == <<"URL", "Title", "Project Name", "Image Count", "Folder Location", "Error?">>
REPORT_NAME == <<"Scraped_Data", ".", "xlsx">>

(* --------------------------- string helpers --------------------------- *)
SeqsUpTo(S, n) == UNION { [1..k -> S] : k \in 0..n }

Positions(s, t) == { k \in 1..Len(s) : s[k] = t }

SetMin(S) == CHOOSE x \in S : \A y \in S : x <= y

SetMax(S) == CHOOSE x \in S : \A y \in S : x >= y

\* str.lower()
LowerTok(t) ==
    CASE t = "PNG" -> "png"
      [] t = "JPG" -> "jpg"
      [] t = "IMAGE" -> "image"
      [] OTHER -> t

Lower(s) == [k \in 1..Len(s) |-> LowerTok(s[k])]

\* s.split(t)[0]
BeforeFirst(s, t) ==
    IF Positions(s, t) = {} THEN s ELSE SubSeq(s, 1, SetMin(Positions(s, t)) - 1)

\* s.split(t)[-1]
AfterLast(s, t) ==
    IF Positions(s, t) = {} THEN s ELSE SubSeq(s, SetMax(Positions(s, t)) + 1, Len(s))

\* s.strip(t)
Strip(s, t) ==
    LET keep == { k \in 1..Len(s) : s[k] # t }
    IN  IF keep = {} THEN <<>> ELSE SubSeq(s, SetMin(keep), SetMax(keep))

\* os.path.basename
Basename(p) == AfterLast(p, "/")

\* os.path.splitext(name)[0]: the last dot splits unless only dots precede it
SplitExtRoot(name) ==
    LET dots == Positions(name, ".")
        d == SetMax(dots)
    IN  IF dots = {} \/ (\A k \in 1..(d - 1) : name[k] = ".")
        THEN name
        ELSE SubSeq(name, 1, d - 1)

\* datetime.now().strftime('%Y%m%d%H%M%S')
Timestamp(now) == ToString(now)

(* ------------------------------- URLs --------------------------------- *)
HasScheme(u) == Len(u) >= 3 /\ u[1] = "http:" /\ u[2] = "/" /\ u[3] = "/"

\* index of the last token of scheme://netloc (0 when there is no scheme)
NetlocEnd(u) ==
    IF ~HasScheme(u) THEN 0
    ELSE LET stops == { k \in 4..Len(u) : u[k] \in {"/", "?"} }
         IN  IF stops = {} THEN Len(u) ELSE SetMin(stops) - 1

\* urlparse(url).path
UrlPath(u) == BeforeFirst(SubSeq(u, NetlocEnd(u) + 1, Len(u)), "?")

\* urlparse raises ValueError("Invalid IPv6 URL") on an unbalanced bracket
\* in the netloc
Malformed(u) ==
    /\ \/ HasScheme(u)
       \/ (Len(u) >= 2 /\ u[1] = "/" /\ u[2] = "/")
    /\ "[" \in { u[k] : k \in 1..Len(u) }
    /\ "]" \notin { u[k] : k \in 1..Len(u) }

\* urljoin(base, ref) for a well-formed ref
UrlJoin(base, ref) ==
    LET root == SubSeq(base, 1, NetlocEnd(base))
        path == UrlPath(base)
        slashes == Positions(path, "/")
        dir == IF slashes = {} THEN <<"/">> ELSE SubSeq(path, 1, SetMax(slashes))
    IN  IF HasScheme(ref) THEN ref
        ELSE IF ref # <<>> /\ ref[1] = "/" THEN root \o ref
        ELSE root \o dir \o ref

\* urlparse(url).path.strip("/").split("/")[-1] or "default_project"
ProjectName(url) ==
    LET seg == AfterLast(Strip(UrlPath(url), "/"), "/")
    IN  IF seg = <<>> THEN <<"default_project">> ELSE seg

(* ---------------------------- filesystem ------------------------------ *)
\* os.path.join(dir, name) for a name without "/"
Join(dir, name) == Append(dir, name)

\* the path the kernel resolves: "." stays, ".." goes to the parent
RECURSIVE Resolve(_)
Resolve(p) ==
    IF p = <<>> THEN <<>>
    ELSE LET head == Resolve(SubSeq(p, 1, Len(p) - 1))
             last == p[Len(p)]
         IN  IF last = <<".">> THEN head
             ELSE IF last = <<".", ".">>
                  THEN (IF head = <<>> THEN <<>> ELSE SubSeq(head, 1, Len(head) - 1))
                  ELSE Append(head, last)

IsPrefix(d, p) == Len(d) <= Len(p) /\ SubSeq(p, 1, Len(d)) = d

\* os.makedirs: the directory and every missing ancestor
Ancestors(p) == { SubSeq(p, 1, k) : k \in 0..Len(p) }

\* create_directory(folder_name)
create_directory(ds, folder_name) ==
    IF Resolve(folder_name) \in ds THEN ds ELSE ds \cup Ancestors(Resolve(folder_name))

\* os.path.relpath(full_path, start) for full_path below start
RelPath(full, start) == SubSeq(full, Len(start) + 1, Len(full))

(* ------------------------- download_file, pure ------------------------ *)
\* filename = os.path.basename(url.split("?")[0]) or f"image_{now}"
FileName(url, now) ==
    LET base == Basename(BeforeFirst(url, "?"))
    IN  IF base = <<>> THEN <<"image_", Timestamp(now)>> ELSE base

\* extension = filename.split(".")[-1].lower() if "." in filename else None
\* (None and "" are both falsy: <<>> stands for either)
UrlExtension(filename) ==
    IF Positions(filename, ".") = {} THEN <<>> ELSE Lower(AfterLast(filename, "."))

Contains(content_type, word) == word \in { content_type[k] : k \in 1..Len(content_type) }

\* the content-type table
Sniff(header, fallback_format) ==
    LET content_type == Lower(header)
    IN  IF Contains(content_type, "jpeg") THEN <<"jpg">>
        ELSE IF Contains(content_type, "png") THEN <<"png">>
        ELSE IF Contains(content_type, "gif") THEN <<"gif">>
        ELSE IF Contains(content_type, "bmp") THEN <<"bmp">>
        ELSE IF Contains(content_type, "webp") THEN <<"webp">>
        ELSE fallback_format

\* variant: the content-type always decides
NeedsSniff_Always(extension) == TRUE

\* does the response's content-type decide the extension?
NeedsSniff(extension) == extension = <<>> \/ extension \notin WHITELIST

Extension(filename, header, fallback_format) ==
    IF NeedsSniff(UrlExtension(filename))
    THEN Sniff(header, fallback_format)
    ELSE UrlExtension(filename)

\* file_path = join(join(folder_name, extension), splitext(filename)[0] + "." + extension)
FilePath(folder_name, filename, extension) ==
    Join(Join(folder_name, extension), SplitExtRoot(filename) \o <<".">> \o extension)

(* ------------------------- the environment ---------------------------- *)
P_root == <<"http:", "/", "/", "h">>
P_xa == <<"http:", "/", "/", "h", "/", "x", "/", "a", "/">>
P_up == <<"http:", "/", "/", "h", "/", "a", "/", ".", ".">>
PageUrls == {P_xa, P_up}

S_jpg == <<"http:", "/", "/", "h", "/", "i", "/", "a", ".", "jpg">>
S_noext == <<"/", "c">>
S_php == <<"http:", "/", "/", "h", "/", "d", ".", "php", "?", "w", ".", "jpg">>
S_bad == <<"http:", "/", "/", "[">>

\* an <img> element: the three attributes the code reads (<<>>: absent)
Img(src, data_src, data_lazy_src) ==
    [src |-> src, data_src |-> data_src, data_lazy_src |-> data_lazy_src]

T_jpg == Img(S_jpg, <<>>, <<>>)
T_lazy == Img(<<>>, <<>>, S_noext)
T_php == Img(<<>>, S_php, S_bad)
T_none == Img(<<>>, <<>>, <<>>)
T_bad == Img(S_bad, <<>>, <<>>)

\* a fetched HTML document: its <title> string (<<>>: none) and its <img> elements
Body(imgs) == [title |-> IF imgs = <<>> THEN <<>> ELSE <<"T">>, imgs |-> imgs]

CT_jpeg == <<"image", "/", "jpeg">>
CT_png == <<"image", "/", "png">>
CT_PNG == <<"IMAGE", "/", "PNG">>
CT_none == <<>>

\* request.json of POST /scrape: with or without the "urls" key
NoKeys == [k \in {} |-> <<>>]
Posts == {NoKeys} \cup { [urls |-> s] : s \in SeqsUpTo(PageUrls, MaxUrls) }

\* the world of the orchestration checks: every posted list, a few documents
World ==
    [posts |-> Posts,
     bodies |-> { Body(<<>>), Body(<<T_none, T_jpg>>), Body(<<T_lazy, T_bad>>) },
     types |-> {CT_png},
     io |-> {"ok", "oserror"}, up |-> BOOLEAN]

\* the world of the download checks: one posted URL, every document of up to
\* MaxImgs <img> elements, several content types
ImageWorld ==
    [posts |-> {NoKeys, [urls |-> <<P_root>>]},
     bodies |-> { Body(imgs) : imgs \in SeqsUpTo({T_jpg, T_lazy, T_php, T_none}, MaxImgs) },
     types |-> {CT_PNG, CT_none},
     io |-> {"ok", "oserror"}, up |-> BOOLEAN]

\* a small world for two concurrent requests
SmallWorld ==
    [posts |-> {NoKeys, [urls |-> <<P_xa>>]},
     bodies |-> { Body(<<T_jpg>>), Body(<<T_bad>>) },
     types |-> {CT_jpeg},
     io |-> {"ok"}, up |-> BOOLEAN]

(* ------------------------------- state -------------------------------- *)
VARIABLES
    workers,        \* number of request-handling threads of the server
    net,            \* the outside world: what clients post and sites answer
    clock,          \* wall clock, in seconds
    drift,          \* seconds that passed outside any sleep
    dirs,           \* directories on disk (resolved paths)
    files,          \* files on disk: resolved path -> content
    pc,             \* per request: position in scrape()
    urls,           \* per request: the posted list
    idx,            \* per request: 1-based position of the for-loop over urls
    results,        \* per request: results
    output_folder,  \* per request: the session folder
    page,           \* per request: locals of extract_images_and_metadata
    call,           \* per request: the running send_request_with_retries
    hist,           \* per request, per finished URL: what was done for it
    resp            \* per request: the HTTP response

vars == <<workers, net, clock, drift, dirs, files, pc, urls, idx, results,
          output_folder, page, call, hist, resp>>

Requests == 1..MaxWorkers

NoPage ==
    [title |-> <<>>, project_name |-> <<>>, project_folder |-> <<>>,
     img_urls |-> <<>>, downloaded_images |-> <<>>,
     \* bookkeeping: create_directory(project_folder) was called; the number of
     \* image URLs extracted, of download_file calls, of files written
     created |-> FALSE, found |-> 0, tried |-> 0, written |-> 0]

NoCall ==
    [kind |-> "none", url |-> <<>>, filename |-> <<>>, attempts |-> 0,
     fails |-> 0, sleeps |-> 0, status |-> "returned",
     \* download_file only: the response's Content-Type and the path written
     header |-> <<>>, file_path |-> <<>>]

NewCall(kind, url, filename) ==
    [NoCall EXCEPT !.kind = kind, !.url = url, !.filename = filename,
                   !.status = "running"]

NoResponse == [status |-> 0]

StartState(n, world) ==
    /\ workers = n
    /\ net = world
    /\ clock = 0
    /\ drift = 0
    /\ dirs = { <<>>, << <<"tmp">> >> }
    /\ files = <<>>
    /\ pc = [r \in Requests |-> "idle"]
    /\ urls = [r \in Requests |-> <<>>]
    /\ idx = [r \in Requests |-> 1]
    /\ results = [r \in Requests |-> <<>>]
    /\ output_folder = [r \in Requests |-> <<>>]
    /\ page = [r \in Requests |-> NoPage]
    /\ call = [r \in Requests |-> NoCall]
    /\ hist = [r \in Requests |-> <<>>]
    /\ resp = [r \in Requests |-> NoResponse]

Init == StartState(1, World)

InitImages == StartState(1, ImageWorld)

InitConc == StartState(MaxWorkers, SmallWorld)

(* ---------------------- send_request_with_retries --------------------- *)
\* variant: off by one, a sleep and another round after the last attempt too
SleepsAfter_Always(attempt) == attempt < RETRY_COUNT

\* line 45: sleep and go round again after failed attempt number `attempt`
\* (0-based), otherwise re-raise
SleepsAfter(attempt) == attempt < RETRY_COUNT - 1

\* the call after one failed requests.get / raise_for_status
AttemptFailed(c) ==
    [c EXCEPT !.attempts = @ + 1,
              !.fails = @ + 1,
              !.sleeps = IF SleepsAfter(c.attempts) THEN @ + 1 ELSE @,
              !.status = IF SleepsAfter(c.attempts) THEN "running" ELSE "raised"]

\* the call after one successful attempt: return response
AttemptSucceeded(c) == [c EXCEPT !.attempts = @ + 1, !.status = "returned"]

\* the clock after a failed attempt that started at `now`
AfterFailure(c, now) == IF SleepsAfter(c.attempts) THEN now + RETRY_DELAY ELSE now

InFlight(r, kind) ==
    /\ r \in 1..workers
    /\ call[r].kind = kind
    /\ call[r].status = "running"
    /\ call[r].attempts < RETRY_COUNT

(* -------------------- extract_images_and_metadata --------------------- *)
\* img.get("src") or img.get("data-src") or img.get("data-lazy-src")
FirstAttr(img) ==
    IF img.src # <<>> THEN img.src
    ELSE IF img.data_src # <<>> THEN img.data_src
    ELSE img.data_lazy_src

SelectImgs(imgs) == SelectSeq(imgs, LAMBDA img : FirstAttr(img) # <<>>)

\* the list comprehension of lines 113-116
ImgUrls(url, imgs) ==
    [k \in 1..Len(SelectImgs(imgs)) |-> UrlJoin(url, FirstAttr(SelectImgs(imgs)[k]))]

\* urljoin raises ValueError inside the comprehension
JoinRaises(imgs) == \E k \in 1..Len(imgs) : FirstAttr(imgs[k]) # <<>> /\ Malformed(FirstAttr(imgs[k]))

Title(body) == IF body.title = <<>> THEN <<"No Title Available">> ELSE body.title

SuccessResult(url, pg) ==
    [url |-> url, title |-> pg.title, project_name |-> pg.project_name,
     image_count |-> Len(pg.downloaded_images), project_folder |-> pg.project_folder]

ErrorResult(url) == [url |-> url, error |-> "RequestException"]

\* variant: the page-level handler misses the fetcher's exception
PageCatches_Other(exception) == exception = "ValueError"

\* which exceptions the except clause of line 132 catches
PageCatches(exception) == exception = "RequestException"

\* variant: download_file catches as narrowly as the page level does
DownloadCatches_Narrow(exception) == exception = "RequestException"

\* which exceptions the except clause of line 89 catches
DownloadCatches(exception) == exception \in {"RequestException", "OSError", "ValueError"}

(* ------------------------------ actions ------------------------------- *)
\* variant: the list is not validated
Accepts_Any(posted) == TRUE

\* line 179: `if not urls` rejects
Accepts(posted) == posted # <<>>

\* POST /scrape, up to the for-loop
Scrape(r) ==
    /\ r \in 1..workers
    /\ pc[r] = "idle"
    /\ \E json \in net.posts :
         LET posted == IF "urls" \in DOMAIN json THEN json.urls ELSE <<>>
             folder == Join(OUTPUT_DIRECTORY, <<"scraped_", Timestamp(clock)>>)
         IN  IF ~Accepts(posted)
             THEN /\ pc' = [pc EXCEPT ![r] = "rejected"]
                  /\ resp' = [resp EXCEPT ![r] = [status |-> 400, error |-> "No URLs provided."]]
                  /\ UNCHANGED <<urls, output_folder, dirs>>
             ELSE /\ pc' = [pc EXCEPT ![r] = "url_loop"]
                  /\ urls' = [urls EXCEPT ![r] = posted]
                  /\ output_folder' = [output_folder EXCEPT ![r] = folder]
                  /\ dirs' = create_directory(dirs, folder)
                  /\ UNCHANGED resp
    /\ UNCHANGED <<workers, net, clock, drift, files, idx, results, page, call, hist>>

\* for url in urls: enter extract_images_and_metadata and its first request
ForEachUrl(r) ==
    /\ r \in 1..workers
    /\ pc[r] = "url_loop"
    /\ idx[r] <= Len(urls[r])
    /\ pc' = [pc EXCEPT ![r] = "page_get"]
    /\ page' = [page EXCEPT ![r] = NoPage]
    /\ call' = [call EXCEPT ![r] = NewCall("page", urls[r][idx[r]], <<>>)]
    /\ UNCHANGED <<workers, net, clock, drift, dirs, files, urls, idx, results,
                   output_folder, hist, resp>>

\* results.append(result); sleep(1)
AppendResult(r, result, now) ==
    /\ results' = [results EXCEPT ![r] = Append(@, result)]
    /\ hist' = [hist EXCEPT ![r] =
                   Append(@, [fetch_failed |-> (call'[r].kind = "page" /\ call'[r].status = "raised"),
                              created |-> page'[r].created,
                              found |-> page'[r].found,
                              tried |-> page'[r].tried,
                              written |-> page'[r].written,
                              paths |-> page'[r].downloaded_images])]
    /\ idx' = [idx EXCEPT ![r] = @ + 1]
    /\ clock' = now + URL_DELAY
    /\ pc' = [pc EXCEPT ![r] = "url_loop"]

\* a page request fails: sleep and retry, or re-raise into line 132
PageRequestFails(r) ==
    /\ InFlight(r, "page")
    /\ pc[r] = "page_get"
    /\ FALSE \in net.up
    /\ call' = [call EXCEPT ![r] = AttemptFailed(@)]
    /\ page' = page
    /\ IF SleepsAfter(call[r].attempts)
       THEN /\ clock' = AfterFailure(call[r], clock)
            /\ UNCHANGED <<pc, results, hist, idx, resp>>
       ELSE IF PageCatches("RequestException")
            THEN AppendResult(r, ErrorResult(urls[r][idx[r]]), clock) /\ UNCHANGED resp
            ELSE /\ pc' = [pc EXCEPT ![r] = "crashed"]
                 /\ resp' = [resp EXCEPT ![r] = [status |-> 500]]
                 /\ UNCHANGED <<clock, results, hist, idx>>
    /\ UNCHANGED <<workers, net, drift, dirs, files, urls, output_folder>>

\* a page request succeeds: lines 99-116
PageRequestOk(r) ==
    /\ InFlight(r, "page")
    /\ pc[r] = "page_get"
    /\ TRUE \in net.up
    /\ \E body \in net.bodies, io \in net.io :
         LET url == urls[r][idx[r]]
             project_name == ProjectName(url)
             project_folder == Join(output_folder[r], project_name)
             exception ==
                 IF io = "oserror" /\ Resolve(project_folder) \notin dirs THEN "OSError"
                 ELSE IF JoinRaises(body.imgs) THEN "ValueError"
                 ELSE "none"
         IN  /\ call' = [call EXCEPT ![r] = AttemptSucceeded(@)]
             /\ dirs' = IF exception = "OSError" THEN dirs
                        ELSE create_directory(dirs, project_folder)
             /\ IF exception = "none"
                THEN /\ page' = [page EXCEPT ![r] =
                            [NoPage EXCEPT !.title = Title(body),
                                           !.project_name = project_name,
                                           !.project_folder = project_folder,
                                           !.img_urls = ImgUrls(url, body.imgs),
                                           !.found = Len(ImgUrls(url, body.imgs)),
                                           !.created = TRUE]]
                     /\ pc' = [pc EXCEPT ![r] = "img_loop"]
                     /\ UNCHANGED <<results, hist, idx, clock, resp>>
                ELSE /\ page' = [page EXCEPT ![r].created = (exception # "OSError")]
                     /\ IF PageCatches(exception)
                        THEN AppendResult(r, ErrorResult(url), clock) /\ UNCHANGED resp
                        ELSE /\ pc' = [pc EXCEPT ![r] = "crashed"]
                             /\ resp' = [resp EXCEPT ![r] = [status |-> 500]]
                             /\ UNCHANGED <<results, hist, idx, clock>>
    /\ UNCHANGED <<workers, net, drift, files, urls, output_folder>>

\* for img_url in img_urls: enter download_file up to its request
ForEachImage(r) ==
    /\ r \in 1..workers
    /\ pc[r] = "img_loop"
    /\ page[r].img_urls # <<>>
    /\ LET img_url == Head(page[r].img_urls)
       IN  call' = [call EXCEPT ![r] = NewCall("image", img_url, FileName(img_url, clock))]
    /\ page' = [page EXCEPT ![r].tried = @ + 1]
    /\ pc' = [pc EXCEPT ![r] = "img_get"]
    /\ UNCHANGED <<workers, net, clock, drift, dirs, files, urls, idx, results,
                   output_folder, hist, resp>>

\* variant: a failed download is put back and tried again
DownloadReturnsNone_Again(r) ==
    /\ page' = page
    /\ pc' = [pc EXCEPT ![r] = "img_loop"]
    /\ UNCHANGED resp

\* download_file returns None: back to the loop of line 120
DownloadReturnsNone(r) ==
    /\ page' = [page EXCEPT ![r].img_urls = Tail(@)]
    /\ pc' = [pc EXCEPT ![r] = "img_loop"]
    /\ UNCHANGED resp

\* an exception inside download_file
DownloadRaises(r, exception) ==
    IF DownloadCatches(exception)
    THEN DownloadReturnsNone(r)
    ELSE /\ pc' = [pc EXCEPT ![r] = "crashed"]
         /\ resp' = [resp EXCEPT ![r] = [status |-> 500]]
         /\ UNCHANGED page

\* an image request fails: sleep and retry, or re-raise into line 89
ImageRequestFails(r) ==
    /\ InFlight(r, "image")
    /\ pc[r] = "img_get"
    /\ FALSE \in net.up
    /\ call' = [call EXCEPT ![r] = AttemptFailed(@)]
    /\ clock' = AfterFailure(call[r], clock)
    /\ IF SleepsAfter(call[r].attempts)
       THEN UNCHANGED <<pc, page, resp>>
       ELSE DownloadRaises(r, "RequestException")
    /\ UNCHANGED <<workers, net, drift, dirs, files, urls, idx, results,
                   output_folder, hist>>

\* an image request succeeds: lines 63-88
ImageRequestOk(r) ==
    /\ InFlight(r, "image")
    /\ pc[r] = "img_get"
    /\ TRUE \in net.up
    /\ \E header \in net.types, io \in net.io :
         LET extension == Extension(call[r].filename, header, FALLBACK)
             format_folder == Join(page[r].project_folder, extension)
             file_path == FilePath(page[r].project_folder, call[r].filename, extension)
         IN  /\ call' = [call EXCEPT ![r] =
                            [AttemptSucceeded(@) EXCEPT
                                !.header = header,
                                !.file_path = IF io = "ok" THEN file_path ELSE <<>>]]
             /\ dirs' = create_directory(dirs, format_folder)
             /\ IF io = "ok"
                THEN /\ files' = (Resolve(file_path) :> [kind |-> "image"]) @@ files
                     /\ page' = [page EXCEPT ![r].img_urls = Tail(@),
                                             ![r].downloaded_images = Append(@, file_path),
                                             ![r].written = @ + 1]
                     /\ pc' = [pc EXCEPT ![r] = "img_loop"]
                     /\ UNCHANGED resp
                ELSE /\ files' = files
                     /\ DownloadRaises(r, "OSError")
    /\ UNCHANGED <<workers, net, clock, drift, urls, idx, results, output_folder, hist>>

\* the loop of line 120 is over: return the result of lines 125-131
ReturnPage(r) ==
    /\ r \in 1..workers
    /\ pc[r] = "img_loop"
    /\ page[r].img_urls = <<>>
    /\ UNCHANGED <<page, call>>
    /\ AppendResult(r, SuccessResult(urls[r][idx[r]], page[r]), clock)
    /\ UNCHANGED <<workers, net, drift, dirs, files, urls, output_folder, resp>>

\* entry.get(key, default)
Get(entry, key, default) == IF key \in DOMAIN entry THEN entry[key] ELSE default

Row(entry) ==
    << entry.url, Get(entry, "title", <<"No Title">>), Get(entry, "project_name", <<>>),
       Get(entry, "image_count", 0), Get(entry, "project_folder", <<>>),
       IF "error" \in DOMAIN entry THEN "Yes" ELSE "No" >>

\* variant: failed URLs get no row
Rows_SkipErrors(data) ==
    <<HEADER>> \o [k \in 1..Len(SelectSeq(data, LAMBDA e : "error" \notin DOMAIN e)) |->
                     Row(SelectSeq(data, LAMBDA e : "error" \notin DOMAIN e)[k])]

\* the rows ws.append writes
Rows(data) == <<HEADER>> \o [k \in 1..Len(data) |-> Row(data[k])]

ReportPath(folder) == Join(folder, REPORT_NAME)

\* save_to_excel(results, output_folder), once the for-loop is over
SaveExcel(r) ==
    /\ r \in 1..workers
    /\ pc[r] = "url_loop"
    /\ idx[r] > Len(urls[r])
    /\ files' = (Resolve(ReportPath(output_folder[r])) :>
                    [kind |-> "xlsx", rows |-> Rows(results[r])]) @@ files
    /\ pc' = [pc EXCEPT ![r] = "zip"]
    /\ UNCHANGED <<workers, net, clock, drift, dirs, urls, idx, results,
                   output_folder, page, call, hist, resp>>

ZipPath(now) == Join(OUTPUT_DIRECTORY, <<"Scraped_Data_", Timestamp(now), ".", "zip">>)

\* the entries os.walk(output_folder) yields, as arcnames
Walk(fs, folder) ==
    { RelPath(f, Resolve(folder)) :
        f \in { g \in DOMAIN fs : IsPrefix(Resolve(folder), g) /\ g # Resolve(folder) } }

\* create_zip(output_folder) and the 200 response
CreateZip(r) ==
    /\ r \in 1..workers
    /\ pc[r] = "zip"
    /\ LET zip_file_path == ZipPath(clock)
           opened == (zip_file_path :> [kind |-> "zip", entries |-> {}]) @@ files
       IN  /\ files' = (zip_file_path :>
                           [kind |-> "zip", entries |-> Walk(opened, output_folder[r])])
                       @@ files
           /\ resp' = [resp EXCEPT ![r] =
                          [status |-> 200, message |-> "Scraping completed!",
                           zip_file_path |-> zip_file_path, results |-> results[r]]]
    /\ pc' = [pc EXCEPT ![r] = "done"]
    /\ UNCHANGED <<workers, net, clock, drift, dirs, urls, idx, results,
                   output_folder, page, call, hist>>

\* a second passes outside any sleep
Tick ==
    /\ drift < MaxDrift
    /\ clock' = clock + 1
    /\ drift' = drift + 1
    /\ UNCHANGED <<workers, net, dirs, files, pc, urls, idx, results, output_folder,
                   page, call, hist, resp>>

Next ==
    \/ \E r \in Requests : Scrape(r)
    \/ \E r \in Requests : ForEachUrl(r)
    \/ \E r \in Requests : PageRequestFails(r)
    \/ \E r \in Requests : PageRequestOk(r)
    \/ \E r \in Requests : ForEachImage(r)
    \/ \E r \in Requests : ImageRequestFails(r)
    \/ \E r \in Requests : ImageRequestOk(r)
    \/ \E r \in Requests : ReturnPage(r)
    \/ \E r \in Requests : SaveExcel(r)
    \/ \E r \in Requests : CreateZip(r)
    \/ Tick

Spec == Init /\ [][Next]_vars

SpecImages == InitImages /\ [][Next]_vars

SpecConc == InitConc /\ [][Next]_vars

(* ------------------------------ claims -------------------------------- *)
StartDirs == { <<>>, << <<"tmp">> >> }

Failed(entry) == "error" \in DOMAIN entry

Report(r) == files[Resolve(ReportPath(output_folder[r]))]

C2_NoPageAbort ==
    \A r \in Requests : ~(pc[r] = "crashed" /\ idx[r] <= Len(urls[r]))

C3_Counts ==
    \A r \in Requests :
        LET c == call[r]
        IN  c.kind # "none" =>
              /\ c.attempts <= 3
              /\ c.status = "returned" => (c.attempts = c.fails + 1 /\ c.sleeps = c.fails)
              /\ c.status = "raised" => (c.fails = 3 /\ c.attempts = 3 /\ c.sleeps = 2)
              /\ c.status = "running" => (c.attempts = c.fails /\ c.sleeps = c.fails /\ c.fails < 3)

C3_Steps ==
    \A r \in Requests :
        /\ (call'[r].fails = call[r].fails + 1 /\ call'[r].attempts < 3) =>
              (call'[r].sleeps = call[r].sleeps + 1 /\ clock' = clock + 2)
        /\ (call'[r].fails = call[r].fails + 1 /\ call'[r].attempts = 3) =>
              (call'[r].sleeps = call[r].sleeps /\ call'[r].status = "raised")
        /\ call[r].status # "running" =>
              (call'[r] = call[r] \/ call'[r].attempts = 0)

\* C3: send_request_with_retries makes at most 3 attempts; the first successful
\* attempt returns and ends the call; each failed attempt but the 3rd is followed
\* by a sleep of 2 seconds, the 3rd by none; after 3 failures the call raises.
C3_RetryContract == []C3_Counts /\ [][C3_Steps]_vars

C3_Witness ==
    \E r \in Requests : call[r].status = "raised" /\ call[r].fails = 3 /\ call[r].sleeps = 2

\* C4 as stated: an image URL is requested at most once by its download.
C4_NoImageRetry ==
    \A r \in Requests : call[r].kind = "image" => call[r].attempts <= 1

\* C4, amended: download_file is called once for each extracted image URL, and
\* that call requests the URL at most 3 times, again only after a failed request,
\* through the same send_request_with_retries as the page fetch.
C4_ImageRetriesBounded ==
    \A r \in Requests :
        /\ call[r].kind = "image" =>
              /\ call[r].attempts <= 3
              /\ call[r].fails >= call[r].attempts - 1
              /\ call[r].fails <= call[r].attempts
        /\ pc[r] = "img_loop" => page[r].tried + Len(page[r].img_urls) = page[r].found
        /\ pc[r] = "img_get" => page[r].tried + Len(page[r].img_urls) = page[r].found + 1

C4_Witness ==
    \E r \in Requests :
        call[r].kind = "image" /\ call[r].attempts = 3 /\ call[r].status = "returned"

\* a finished download_file call for a URL ending in `suffix`, answered with
\* content-type image/png, that wrote a file
Downloaded(r, suffix) ==
    /\ call[r].kind = "image"
    /\ call[r].status = "returned"
    /\ call[r].file_path # <<>>
    /\ AfterLast(BeforeFirst(call[r].url, "?"), ".") = suffix
    /\ Positions(Basename(BeforeFirst(call[r].url, "?")), ".") # {}
    /\ Lower(call[r].header) = CT_png

StoredAs(r, extension) ==
    call[r].file_path =
        Append(Append(page[r].project_folder, extension),
               SubSeq(call[r].filename, 1, Len(call[r].filename) - 2) \o <<".">> \o extension)

\* C5 as stated: a URL ending in .jpg answered with content-type image/png is
\* stored under png/ with a .png suffix.
C5_ContentTypeWins ==
    \A r \in Requests : Downloaded(r, <<"jpg">>) => StoredAs(r, <<"png">>)

\* C5, amended: a URL ending in .jpg answered with content-type image/png is
\* stored under jpg/ with its .jpg suffix; the content-type decides only when the
\* URL's suffix is absent or outside the whitelist (x.php answered with image/png
\* is stored under png/ as x.png).
C5_WhitelistedSuffixKept ==
    \A r \in Requests :
        /\ Downloaded(r, <<"jpg">>) => StoredAs(r, <<"jpg">>)
        /\ Downloaded(r, <<"php">>) => StoredAs(r, <<"png">>)

C5_Witness == \E r \in Requests : Downloaded(r, <<"jpg">>)

\* C6: a URL whose page fetch failed on all attempts gets a result with an error
\* field (the request goes on), no project folder is created for it and no image
\* download is attempted for it.
C6_FailedFetch ==
    \A r \in Requests :
        /\ (call[r].kind = "page" /\ call[r].status = "raised") => pc[r] # "crashed"
        /\ \A k \in 1..Len(hist[r]) :
              hist[r][k].fetch_failed =>
                 /\ Failed(results[r][k])
                 /\ ~hist[r][k].created
                 /\ hist[r][k].found = 0
                 /\ hist[r][k].tried = 0
                 /\ hist[r][k].paths = <<>>

C6_Witness ==
    \E r \in Requests : \E k \in 1..Len(hist[r]) :
        hist[r][k].fetch_failed /\ call[r].fails = 3

\* C7: an exception inside download_file never leaves it (no request dies in an
\* image download), every extracted image is attempted, and a page result's
\* image_count is the number of downloads that wrote a file, between 0 and N.
C7_ImageCount ==
    \A r \in Requests :
        /\ pc[r] = "crashed" => call[r].kind # "image"
        /\ \A k \in 1..Len(results[r]) :
              ~Failed(results[r][k]) =>
                 /\ results[r][k].image_count = hist[r][k].written
                 /\ results[r][k].image_count >= 0
                 /\ results[r][k].image_count <= hist[r][k].found
                 /\ hist[r][k].tried = hist[r][k].found

C7_Witness ==
    \E r \in Requests : \E k \in 1..Len(results[r]) :
        /\ ~Failed(results[r][k])
        /\ hist[r][k].found = 2
        /\ results[r][k].image_count = 1
        /\ call[r].kind = "image"
        /\ call[r].file_path # <<>>

Accepted(r) == pc[r] \notin {"idle", "rejected"}

\* C8: two accepted scrape requests never share a session folder.
C8_DistinctSessions ==
    \A r1, r2 \in Requests :
        (r1 # r2 /\ Accepted(r1) /\ Accepted(r2)) => output_folder[r1] # output_folder[r2]

\* C9: an empty or missing list is answered with 400 and an error payload and
\* nothing else happens: no session folder, no fetch, no report, no archive; and
\* a request that got past the check has a non-empty list.
C9_EmptyRejected ==
    \A r \in Requests :
        /\ pc[r] = "rejected" =>
              /\ resp[r].status = 400
              /\ "error" \in DOMAIN resp[r]
              /\ urls[r] = <<>>
              /\ output_folder[r] = <<>>
              /\ call[r] = NoCall
              /\ results[r] = <<>>
              /\ workers = 1 => (dirs = StartDirs /\ files = <<>>)
        /\ Accepted(r) => (urls[r] # <<>> /\ resp[r].status # 400)

C9_Witness == \E r \in Requests : pc[r] = "rejected" /\ workers = 1

\* every file download_file returned to request r, as resolved paths
DownloadedFiles(r) ==
    UNION { { Resolve(hist[r][k].paths[n]) : n \in 1..Len(hist[r][k].paths) } :
            k \in 1..Len(hist[r]) }

Archive(r) == files[resp[r].zip_file_path]

\* C10: the archive exists only once every URL is processed and the report is
\* saved; its entries are exactly the files under the session folder, that is the
\* report and every downloaded image file, under their relative paths; the archive
\* lies outside the session folder and is not an entry of itself.
C10_ArchiveComplete ==
    \A r \in Requests :
        pc[r] = "done" =>
           /\ idx[r] > Len(urls[r])
           /\ Resolve(ReportPath(output_folder[r])) \in DOMAIN files
           /\ ~IsPrefix(Resolve(output_folder[r]), resp[r].zip_file_path)
           /\ Archive(r).entries = Walk(files, output_folder[r])
           /\ Archive(r).entries =
                 { RelPath(f, Resolve(output_folder[r])) :
                     f \in DownloadedFiles(r) \cup {Resolve(ReportPath(output_folder[r]))} }
           /\ \A f \in DownloadedFiles(r) : IsPrefix(Resolve(output_folder[r]), f)

====
